---------------------------- MODULE Spec2Model ----------------------------
(***************************************************************************)
(* Model of the filetime_type crate (src/lib.rs): the FileTime value type  *)
(* and its conversions to and from a raw i64 tick count, an 8-byte         *)
(* little-endian buffer and a chrono DateTime<Utc>.                        *)
(*                                                                         *)
(* The code computes on signed 64-bit integers, which a model checker's    *)
(* native integers cannot hold.  Every Rust integer is therefore a         *)
(* two's-complement numeral: a sequence of 16-bit limbs, least             *)
(* significant first, WideLen limbs long, so that any intermediate result  *)
(* of the code is exact before it is tested against the i64 range.         *)
(***************************************************************************)
EXTENDS Integers, Sequences, FiniteSets

\* ------------------------------------------------------------------------
\* Two's-complement numerals
\* ------------------------------------------------------------------------

\* one digit of a numeral is a 16-bit limb
LimbBase == 65536

\* a limb is written as four hexadecimal digits during a division
NibbleBase == 16

\* limbs of an i64 (secs: i64, nsecs: i64)
I64Len == 4

\* limbs of an intermediate result: an i64 times 10^7 needs 88 bits
WideLen == I64Len + 2

Limb == 0 .. (LimbBase - 1)

RECURSIVE Digits(_, _)
\* the numeral of a small integer n (\div and % round down, so a negative n
\* comes out in two's complement)
Digits(n, k) ==
    IF k = 0 THEN << >>
    ELSE << n % LimbBase >> \o Digits(n \div LimbBase, k - 1)

W(n) == Digits(n, WideLen)

RECURSIVE AddC(_, _, _, _)
AddC(a, b, i, c) ==
    IF i > WideLen THEN << >>
    ELSE LET s == a[i] + b[i] + c
         IN  << s % LimbBase >> \o AddC(a, b, i + 1, s \div LimbBase)

Add(a, b) == AddC(a, b, 1, 0)

RECURSIVE MulC(_, _, _, _)
MulC(a, m, i, c) ==
    IF i > WideLen THEN << >>
    ELSE LET p == (a[i] * m) + c
         IN  << p % LimbBase >> \o MulC(a, m, i + 1, p \div LimbBase)

\* a times a non-negative m of at most half a limb
MulS(a, m) == MulC(a, m, 1, 0)

\* a times a non-negative m < 2^30, by the two halves of m
Mul(a, m) ==
    Add(MulS(MulS(a, m \div (LimbBase \div 2)), LimbBase \div 2),
        MulS(a, m % (LimbBase \div 2)))

Neg(a) == Add([i \in 1 .. WideLen |-> (LimbBase - 1) - a[i]], W(1))

Sub(a, b) == Add(a, Neg(b))

IsNeg(a) == a[WideLen] >= LimbBase \div 2

Lt(a, b) == IsNeg(Sub(a, b))

Le(a, b) == ~ Lt(b, a)

\* one step of a long division by d < 2^27: the limb x is brought down
\* below the remainder r, one hexadecimal digit at a time
DivLimb(r, x, d) ==
    LET c3 == (r * NibbleBase) + (x \div (NibbleBase * NibbleBase * NibbleBase))
        c2 == ((c3 % d) * NibbleBase) + ((x \div (NibbleBase * NibbleBase)) % NibbleBase)
        c1 == ((c2 % d) * NibbleBase) + ((x \div NibbleBase) % NibbleBase)
        c0 == ((c1 % d) * NibbleBase) + (x % NibbleBase)
    IN  [q |-> ((((((c3 \div d) * NibbleBase) + (c2 \div d)) * NibbleBase)
                  + (c1 \div d)) * NibbleBase) + (c0 \div d),
         r |-> c0 % d]

RECURSIVE DivC(_, _, _, _)
\* long division of a non-negative numeral by a positive d < 2^27, from the
\* most significant limb down: [q |-> quotient, r |-> remainder]
DivC(a, d, i, r) ==
    IF i = 0 THEN [q |-> << >>, r |-> r]
    ELSE LET step == DivLimb(r, a[i], d)
         IN  IF step.q \in Limb
             THEN LET rest == DivC(a, d, i - 1, step.r)
                  IN  [q |-> rest.q \o << step.q >>, r |-> rest.r]
             ELSE [q |-> << >>, r |-> r]

\* Rust's / and % on integers: the quotient truncates toward zero and the
\* remainder takes the sign of the dividend
TruncDiv(a, d) ==
    IF IsNeg(a) THEN Neg(DivC(Neg(a), d, WideLen, 0).q)
    ELSE DivC(a, d, WideLen, 0).q

TruncRem(a, d) ==
    IF IsNeg(a) THEN Neg(W(DivC(Neg(a), d, WideLen, 0).r))
    ELSE W(DivC(a, d, WideLen, 0).r)

\* i64::div_euclid / rem_euclid, which chrono uses to split nanoseconds
FloorDiv(a, d) ==
    IF IsNeg(a) /\ TruncRem(a, d) # W(0) THEN Sub(TruncDiv(a, d), W(1))
    ELSE TruncDiv(a, d)

FloorRem(a, d) ==
    IF IsNeg(a) /\ TruncRem(a, d) # W(0) THEN Add(TruncRem(a, d), W(d))
    ELSE TruncRem(a, d)

\* the value of the limbs above the sign limb of an i64 when it fits
SignFill(a) == IF a[I64Len] >= LimbBase \div 2 THEN LimbBase - 1 ELSE 0

\* a is within i64::MIN ..= i64::MAX
InI64(a) == \A i \in (I64Len + 1) .. WideLen : a[i] = SignFill(a)

\* the wrapping result of an i64 operation: the low 64 bits, sign-extended
WrapI64(a) ==
    LET fill == SignFill(a)
    IN  [i \in 1 .. WideLen |-> IF i <= I64Len THEN a[i] ELSE fill]

\* the i64 range
I64Max == [i \in 1 .. WideLen |->
             IF i < I64Len THEN LimbBase - 1
             ELSE IF i = I64Len THEN (LimbBase \div 2) - 1 ELSE 0]

I64Min == Sub(Neg(I64Max), W(1))

\* the result of a Rust arithmetic operator on i64: the wrapped value and
\* whether the exact result left the i64 range (a panic in a build with
\* overflow checks, a silent wrap in one without)
MulI64(a, m) ==
    LET exact == Mul(a, m) IN [val |-> WrapI64(exact), ovf |-> ~ InI64(exact)]

AddI64(a, b) ==
    LET exact == Add(a, b) IN [val |-> WrapI64(exact), ovf |-> ~ InI64(exact)]

\* the numeral h2 * 10^14 + h1 * 10^7 + h0, for writing 64-bit literals
D7(h2, h1, h0) ==
    Add(Mul(Add(Mul(W(h2), 10000000), W(h1)), 10000000), W(h0))

\* ------------------------------------------------------------------------
\* chrono, as far as the crate calls it
\* ------------------------------------------------------------------------

NANOS_PER_SEC == 1000000000

\* days from 1970-01-01 to the proleptic Gregorian date y-m-d
DaysFromCivil(y, m, d) ==
    LET yy  == IF m <= 2 THEN y - 1 ELSE y
        era == yy \div 400
        yoe == yy - (era * 400)
        mp  == IF m > 2 THEN m - 3 ELSE m + 9
        doy == (((153 * mp) + 2) \div 5) + (d - 1)
        doe == (yoe * 365) + (yoe \div 4) - (yoe \div 100) + doy
    IN  (era * 146097) + doe - 719468

\* a DateTime<Utc> is the pair of its timestamp() (seconds since
\* 1970-01-01T00:00:00Z) and its timestamp_subsec_nanos()
DateTime(secs, nanos) == << secs, nanos >>

timestamp(dt) == dt[1]

timestamp_subsec_nanos(dt) == dt[2]

\* Utc.with_ymd_and_hms(y, m, d, h, mi, s).unwrap()
with_ymd_and_hms(y, m, d, h, mi, s) ==
    DateTime(Add(Mul(W(DaysFromCivil(y, m, d)), 86400),
                 W((h * 3600) + (mi * 60) + s)),
             0)

\* chrono's representable range of DateTime<Utc>
MIN_DATETIME == with_ymd_and_hms(-262143, 1, 1, 0, 0, 0)
MAX_DATETIME == with_ymd_and_hms(262142, 12, 31, 23, 59, 59)

\* Duration::seconds(s): None stands for its panic on an out-of-range s
\* (|s| > i64::MAX / 1000)
DurationSeconds(s) ==
    IF Lt(TruncDiv(I64Max, 1000), s) \/ Lt(s, Neg(TruncDiv(I64Max, 1000)))
    THEN [ok |-> FALSE, secs |-> W(0), nanos |-> 0]
    ELSE [ok |-> TRUE, secs |-> s, nanos |-> 0]

\* Duration::nanoseconds(n): n.div_euclid(10^9) seconds and n.rem_euclid(10^9)
\* nanoseconds; the division by 10^9 is done as one by 10^7 and one by 100
DurationNanoseconds(n) ==
    LET q1 == FloorDiv(n, 10000000)
        r1 == DivC(FloorRem(n, 10000000), 10000000, WideLen, 0).r
        q2 == FloorDiv(q1, 100)
        r2 == DivC(FloorRem(q1, 100), 100, WideLen, 0).r
    IN  [ok |-> TRUE, secs |-> q2, nanos |-> (r2 * 10000000) + r1]

\* DateTime<Utc> + Duration, on [ok, dt]: ok is FALSE where the operator
\* panics ("`DateTime + Duration` overflowed"), or where an operand already did
AddDuration(lhs, dur) ==
    LET n == timestamp_subsec_nanos(lhs.dt) + dur.nanos
        s == Add(Add(timestamp(lhs.dt), dur.secs), W(n \div NANOS_PER_SEC))
    IN  IF ~ lhs.ok \/ ~ dur.ok \/ Lt(timestamp(MAX_DATETIME), s)
           \/ Lt(s, timestamp(MIN_DATETIME))
        THEN [ok |-> FALSE, dt |-> DateTime(W(0), 0)]
        ELSE [ok |-> TRUE, dt |-> DateTime(s, n % NANOS_PER_SEC)]

\* ------------------------------------------------------------------------
\* impl FileTime
\* ------------------------------------------------------------------------

\* January 1, 1970 as MS file time: 116444736000000000
EPOCH_AS_FILETIME == D7(1164, 4473600, 0)

HUNDREDS_OF_NANOSECONDS == 10000000

\* a call returns [panic, ovf, val]: panic where an assert! fails, ovf where
\* an i64 operator overflowed on the way (val is then the wrapped result)
Panicked == [panic |-> TRUE, ovf |-> FALSE,
             val |-> [secs |-> W(0), nsecs |-> W(0)]]

Returned(secs, nsecs, ovf) ==
    [panic |-> FALSE, ovf |-> ovf, val |-> [secs |-> secs, nsecs |-> nsecs]]

new(secs, nsecs) ==
    IF ~ Lt(W(0), secs) THEN Panicked          \* assert!(secs > 0)
    ELSE IF ~ Lt(W(0), nsecs) THEN Panicked    \* assert!(nsecs > 0)
    ELSE Returned(secs, nsecs, FALSE)

seconds(self) == self.secs

nanoseconds(self) == self.nsecs

filetime(self) ==
    LET prod == MulI64(self.secs, HUNDREDS_OF_NANOSECONDS)
        sum  == AddI64(prod.val, self.nsecs)
    IN  [val |-> sum.val, ovf |-> prod.ovf \/ sum.ovf]

filetime_epoch == with_ymd_and_hms(1601, 1, 1, 0, 0, 0)

\* from_i64 without its assert!
from_i64_unchecked(ticks) ==
    LET secs  == TruncDiv(ticks, HUNDREDS_OF_NANOSECONDS)
        nsecs == MulI64(TruncRem(ticks, HUNDREDS_OF_NANOSECONDS), 100)
    IN  Returned(secs, nsecs.val, nsecs.ovf)

\* from_i64 leaving the remainder in 100 ns ticks
from_i64_raw_ticks(ticks) ==
    IF ~ Le(W(0), ticks) THEN Panicked
    ELSE Returned(TruncDiv(ticks, HUNDREDS_OF_NANOSECONDS),
                  TruncRem(ticks, HUNDREDS_OF_NANOSECONDS), FALSE)

from_i64(ticks) ==
    IF ~ Le(W(0), ticks) THEN Panicked         \* assert!(filetime >= 0)
    ELSE LET secs  == TruncDiv(ticks, HUNDREDS_OF_NANOSECONDS)
             nsecs == MulI64(TruncRem(ticks, HUNDREDS_OF_NANOSECONDS), 100)
         IN  Returned(secs, nsecs.val, nsecs.ovf)

\* the value from_datetime hands to from_i64
datetime_ticks(dt) ==
    LET prod == MulI64(timestamp(dt), HUNDREDS_OF_NANOSECONDS)
        sum1 == AddI64(EPOCH_AS_FILETIME, prod.val)
        sum2 == AddI64(sum1.val, W(timestamp_subsec_nanos(dt)))
    IN  [val |-> sum2.val, ovf |-> prod.ovf \/ sum1.ovf \/ sum2.ovf]

from_datetime(dt) ==
    LET nsecs == datetime_ticks(dt)
        made  == from_i64(nsecs.val)
    IN  [panic |-> made.panic, ovf |-> nsecs.ovf \/ made.ovf, val |-> made.val]

\* to_datetime reading nsecs as 100 ns ticks
to_datetime_ticks(self) ==
    AddDuration(AddDuration([ok |-> TRUE, dt |-> filetime_epoch],
                            DurationSeconds(self.secs)),
                DurationNanoseconds(Mul(self.nsecs, 100)))

to_datetime(self) ==
    AddDuration(AddDuration([ok |-> TRUE, dt |-> filetime_epoch],
                            DurationSeconds(self.secs)),
                DurationNanoseconds(self.nsecs))

\* ------------------------------------------------------------------------
\* the From impls
\* ------------------------------------------------------------------------

BYTE == 256

\* i64::from_le_bytes
from_le_bytes(val) ==
    WrapI64([i \in 1 .. WideLen |->
               IF i <= I64Len THEN val[(2 * i) - 1] + (BYTE * val[2 * i])
               ELSE 0])

\* i64::to_le_bytes
to_le_bytes(x) ==
    [k \in 1 .. (2 * I64Len) |->
       IF k % 2 = 1 THEN x[(k + 1) \div 2] % BYTE ELSE x[k \div 2] \div BYTE]

FileTime_from_i64(val) == from_i64(val)

FileTime_from_DateTime(dt) == from_datetime(dt)

i64_from_FileTime(self) == filetime(self)

DateTime_from_FileTime(self) == to_datetime(self)

\* Utc::now().into(), where the clock reads dt
now(dt) == FileTime_from_DateTime(dt)

FileTime_from_bytes(val) == from_i64(from_le_bytes(val))

bytes_from_FileTime(self) ==
    LET raw == filetime(self) IN [val |-> to_le_bytes(raw.val), ovf |-> raw.ovf]

\* ------------------------------------------------------------------------
\* Inputs
\* ------------------------------------------------------------------------

\* every sampled input lies within Spread of a boundary of the arithmetic
Spread == 1

Offsets == (0 - Spread) .. Spread

\* tick counts: zero, one second, the documented examples, the Unix epoch,
\* the largest tick count with a whole second below it, and the i64 limits
RawAnchors ==
    { W(0), W(HUNDREDS_OF_NANOSECONDS), D7(1289, 3036400, 1000),
      D7(1301, 3971283, 1482830), EPOCH_AS_FILETIME,
      D7(92233, 7203685, 0), I64Max, I64Min }

RawInputs ==
    { t \in { Add(a, W(d)) : a \in RawAnchors, d \in Offsets } : InI64(t) }

\* instants: the FILETIME epoch, the Unix epoch, 2009-07-25T23:00:00Z and
\* the last second chrono represents, around sub-second boundaries
SecAnchors ==
    { timestamp(filetime_epoch), W(0),
      timestamp(with_ymd_and_hms(2009, 7, 25, 23, 0, 0)),
      timestamp(MAX_DATETIME) }

NanoAnchors == { 0, 100, HUNDREDS_OF_NANOSECONDS, NANOS_PER_SEC - 1 }

DtInputs ==
    { DateTime(a, n + d) : a \in SecAnchors,
        n \in { m \in NanoAnchors : m + Spread < NANOS_PER_SEC },
        d \in 0 .. Spread }
    \cup { DateTime(a, (NANOS_PER_SEC - 1) - d) :
             a \in SecAnchors, d \in 0 .. Spread }
    \cup { DateTime(Add(a, W(d)), 0) :
             a \in SecAnchors \ { timestamp(MAX_DATETIME) }, d \in Offsets }

\* arguments of new: around zero, one second of nanoseconds, and the
\* largest i64
NewArgs == { W(d) : d \in Offsets } \cup { W(NANOS_PER_SEC), I64Max }

\* buffers: the documented example, all zeroes, all ones, and the encoding
\* of every sampled tick count
BytesInputs ==
    { << 206, 235, 125, 26, 97, 89, 206, 1 >>,
      << 0, 0, 0, 0, 0, 0, 0, 0 >>,
      << 255, 255, 255, 255, 255, 255, 255, 255 >> }
    \cup { to_le_bytes(t) : t \in RawInputs }

\* a conversion is called as the method or through its From impl
Via == { "fn", "From" }

\* ------------------------------------------------------------------------
\* State
\* ------------------------------------------------------------------------

VARIABLES
    build,      \* "debug": i64 overflow panics; "release": it wraps
    ft,         \* the FileTime held, if the last construction returned one
    origin,     \* the last construction: operation, argument (new's is
                \* the pair << secs, nsecs >>), ticks, overflow
    out,        \* the last accessor result on ft
    panicked    \* the thread has panicked

vars == << build, ft, origin, out, panicked >>

NoFileTime == [ok |-> FALSE, secs |-> W(0), nsecs |-> W(0)]

NoOrigin == [op |-> "none", arg |-> << >>, ticks |-> W(0), ovf |-> FALSE]

NoOut == [op |-> "none", val |-> << >>, ovf |-> FALSE]

Init ==
    /\ build \in { "debug", "release" }
    /\ ft = NoFileTime
    /\ origin = NoOrigin
    /\ out = NoOut
    /\ panicked = FALSE

\* the caller holds no value yet and reads a fresh input
Fresh == origin.op = "none"

\* what a construction may be called with: a fresh input, or the output of
\* the accessor just called
RawArgs ==
    IF Fresh THEN RawInputs ELSE IF out.op = "filetime" THEN { out.val } ELSE { }

DtArgs ==
    IF Fresh THEN DtInputs ELSE IF out.op = "to_datetime" THEN { out.val } ELSE { }

BytesArgs ==
    IF Fresh THEN BytesInputs
    ELSE IF out.op = "into_bytes" THEN { out.val } ELSE { }

\* a construction call that computed res from arg, on the way handing
\* ticks to from_i64
Construct(op, arg, ticks, res) ==
    /\ ~ panicked
    /\ LET failed == res.panic \/ (build = "debug" /\ res.ovf)
       IN  /\ panicked' = failed
           /\ ft' = IF failed THEN NoFileTime
                    ELSE [ok |-> TRUE, secs |-> res.val.secs,
                          nsecs |-> res.val.nsecs]
    /\ origin' = [op |-> op, arg |-> arg, ticks |-> ticks, ovf |-> res.ovf]
    /\ out' = NoOut
    /\ UNCHANGED build

\* an accessor call on ft that computed val
Access(op, val, ovf, failed) ==
    /\ ~ panicked
    /\ ft.ok
    /\ out' = [op |-> op, val |-> val, ovf |-> ovf]
    /\ panicked' = (failed \/ (build = "debug" /\ ovf))
    /\ UNCHANGED << build, ft, origin >>

New ==
    /\ Fresh
    /\ \E secs \in NewArgs, nsecs \in NewArgs :
           LET r == new(secs, nsecs)
           IN  Construct("new", << secs, nsecs >>, W(0), r)

FromI64 ==
    \E via \in Via, t \in RawArgs :
        LET r == IF via = "fn" THEN from_i64(t) ELSE FileTime_from_i64(t)
        IN  Construct("from_i64", t, t, r)

FromDatetime ==
    \E via \in Via, dt \in DtArgs :
        LET r == IF via = "fn" THEN from_datetime(dt)
                 ELSE FileTime_from_DateTime(dt)
            n == datetime_ticks(dt).val
        IN  Construct("from_datetime", dt, n, r)

Now ==
    /\ Fresh
    /\ \E dt \in DtInputs :
           LET r == now(dt)
               n == datetime_ticks(dt).val
           IN  Construct("now", dt, n, r)

FromBytes ==
    \E val \in BytesArgs :
        LET r == FileTime_from_bytes(val)
            n == from_le_bytes(val)
        IN  Construct("from_bytes", val, n, r)

Seconds == Access("seconds", seconds(ft), FALSE, FALSE)

Nanoseconds == Access("nanoseconds", nanoseconds(ft), FALSE, FALSE)

Filetime ==
    \E via \in Via :
        LET r == IF via = "fn" THEN filetime(ft) ELSE i64_from_FileTime(ft)
        IN  Access("filetime", r.val, r.ovf, FALSE)

ToDatetime ==
    \E via \in Via :
        LET r == IF via = "fn" THEN to_datetime(ft)
                 ELSE DateTime_from_FileTime(ft)
        IN  Access("to_datetime", r.dt, FALSE, ~ r.ok)

IntoBytes ==
    LET r == bytes_from_FileTime(ft)
    IN  Access("into_bytes", r.val, r.ovf, FALSE)

\* the value goes out of scope; the caller starts over with a fresh input
Drop ==
    /\ ~ panicked
    /\ ~ Fresh
    /\ ft' = NoFileTime
    /\ origin' = NoOrigin
    /\ out' = NoOut
    /\ UNCHANGED << build, panicked >>

Next ==
    \/ New
    \/ FromI64
    \/ FromDatetime
    \/ Now
    \/ FromBytes
    \/ Seconds
    \/ Nanoseconds
    \/ Filetime
    \/ ToDatetime
    \/ IntoBytes
    \/ Drop

Spec == Init /\ [][Next]_vars

\* ------------------------------------------------------------------------
\* Properties
\* ------------------------------------------------------------------------

\* the last construction call panicked and returned no FileTime
Rejected == panicked /\ ~ ft.ok

\* 1601-01-01T00:00:00Z lies 11644473600 s before 1970-01-01T00:00:00Z
SecsBeforeUnixEpoch == D7(0, 1164, 4473600)

\* the nanoseconds from 1601-01-01T00:00:00Z to the instant dt
NanosSince1601(dt) ==
    Add(Mul(Add(timestamp(dt), SecsBeforeUnixEpoch), NANOS_PER_SEC),
        W(timestamp_subsec_nanos(dt)))

\* the documented buffer CE EB 7D 1A 61 59 CE 01
ExampleBytes == << 206, 235, 125, 26, 97, 89, 206, 1 >>

\* C1: a FileTime made by from_i64(t), t >= 0, gives back t from filetime()
\* whenever filetime() does not overflow.
C1_RawTickRoundTrip ==
    (out.op = "filetime" /\ origin.op = "from_i64" /\ ~ out.ovf)
        => out.val = origin.arg

\* C2: a FileTime made from an 8-byte buffer that decodes to a non-negative
\* i64 converts back to the same 8 bytes (here even only where filetime()
\* does not overflow).
C2_ByteRoundTrip ==
    (out.op = "into_bytes" /\ origin.op = "from_bytes" /\ ~ out.ovf)
        => out.val = origin.arg

\* C3: from_datetime(dt).to_datetime(), for dt at or after 1601-01-01T00:00:00Z
\* with 0 <= nanos < 10^9, is dt with its nanoseconds truncated down to a
\* multiple of 100 and its whole second unchanged (here even only where no
\* i64 operation overflowed).
C3_CivilRoundTrip ==
    (/\ out.op = "to_datetime"
     /\ origin.op = "from_datetime"
     /\ ~ origin.ovf
     /\ Le(W(0), Add(timestamp(origin.arg), SecsBeforeUnixEpoch))
     /\ timestamp_subsec_nanos(origin.arg) < NANOS_PER_SEC)
        => /\ ~ panicked
           /\ timestamp(out.val) = timestamp(origin.arg)
           /\ timestamp_subsec_nanos(out.val)
                  = timestamp_subsec_nanos(origin.arg)
                      - (timestamp_subsec_nanos(origin.arg) % 100)

\* C4: from_i64 of a negative tick count, new with a negative secs or a
\* negative nsecs, and From<[u8; 8]> of a buffer whose sign bit is set all
\* panic and produce no FileTime.
C4_NegativeRejection ==
    /\ (origin.op = "from_i64" /\ IsNeg(origin.arg)) => Rejected
    /\ (origin.op = "new" /\ IsNeg(origin.arg[1])) => Rejected
    /\ (origin.op = "new" /\ IsNeg(origin.arg[2])) => Rejected
    /\ (origin.op = "from_bytes" /\ origin.arg[2 * I64Len] >= BYTE \div 2)
           => Rejected

\* C4 witness: a buffer with the sign bit set was converted and rejected
C4_Witness ==
    /\ origin.op = "from_bytes"
    /\ origin.arg[2 * I64Len] >= BYTE \div 2
    /\ Rejected

\* C5: new(secs, nsecs) succeeds for every secs >= 0 and nsecs >= 0, zero
\* included, and stores both arguments verbatim.
C5_ConstructorAcceptance ==
    (/\ origin.op = "new"
     /\ Le(W(0), origin.arg[1])
     /\ Le(W(0), origin.arg[2]))
        => /\ ft.ok
           /\ seconds(ft) = origin.arg[1]
           /\ nanoseconds(ft) = origin.arg[2]

C7_TickSplit ==
    /\ (origin.op = "from_i64" /\ ft.ok)
           => /\ Add(Mul(seconds(ft), NANOS_PER_SEC), nanoseconds(ft))
                    = Mul(origin.arg, 100)
              /\ Le(W(0), nanoseconds(ft))
              /\ Lt(nanoseconds(ft), W(NANOS_PER_SEC))
              /\ TruncRem(nanoseconds(ft), 100) = W(0)
              /\ (origin.arg = W(1))
                     => (seconds(ft) = W(0) /\ nanoseconds(ft) = W(100))
    /\ (origin.op = "from_bytes" /\ origin.arg = ExampleBytes)
           => /\ ft.ok
              /\ seconds(ft) = D7(0, 1301, 3971283)
              /\ nanoseconds(ft) = W(148283000)

\* C7 witness: one tick was split into (0, 100)
C7_Witness ==
    /\ origin.op = "from_i64"
    /\ origin.arg = W(1)
    /\ ft.ok
    /\ nanoseconds(ft) = W(100)

\* the tick count of the instant dt with its nanoseconds divided by 100
RescaledTicks(dt) ==
    Add(Add(D7(1164, 4473600, 0), Mul(timestamp(dt), HUNDREDS_OF_NANOSECONDS)),
        W(timestamp_subsec_nanos(dt) \div 100))

\* C8: from_datetime hands from_i64 the tick count 116444736000000000 +
\* epochSeconds * 10^7 + nanoOfSecond / 100 whenever that is non-negative,
\* so the sub-second part never carries into the seconds field.
C8_CivilToTicksRescaled ==
    (/\ origin.op = "from_datetime"
     /\ timestamp_subsec_nanos(origin.arg) < NANOS_PER_SEC
     /\ Le(W(0), RescaledTicks(origin.arg))
     /\ InI64(RescaledTicks(origin.arg)))
        => /\ origin.ticks = RescaledTicks(origin.arg)
           /\ ft.ok
           /\ seconds(ft) = Add(timestamp(origin.arg), SecsBeforeUnixEpoch)

\* C9: every FileTime any construction returns has seconds() >= 0 and
\* 0 <= nanoseconds() < 10^9.
C9_ValueInvariant ==
    ft.ok => /\ Le(W(0), seconds(ft))
             /\ Le(W(0), nanoseconds(ft))
             /\ Lt(nanoseconds(ft), W(NANOS_PER_SEC))

\* C10: filetime() on a FileTime made by from_i64 whose seconds() is below
\* (2^63 - 1) / 10^7 does not overflow.
C10_FiletimeNoOverflow ==
    (/\ out.op = "filetime"
     /\ origin.op = "from_i64"
     /\ Lt(seconds(ft), TruncDiv(I64Max, HUNDREDS_OF_NANOSECONDS)))
        => ~ out.ovf

=============================================================================
